---- MODULE Spec2Model ----
(***************************************************************************)
(* Model of m1-3-new-features.py: command-line validation (parse_args),    *)
(* the traversal of issues, subtasks and work-logs (main), the aggregation *)
(* of hours per developer and the final report.                            *)
(*                                                                         *)
(* Strings the program inspects character by character (the date           *)
(* arguments, the option names, the "started" stamps) are sequences of     *)
(* one-character strings.  Python floats are IEEE-754 binary64 values;     *)
(* they are modelled exactly, as fixed-point bit vectors (section          *)
(* "binary64 arithmetic").                                                 *)
(***************************************************************************)
EXTENDS Integers, Sequences, FiniteSets, TLC

\* ------------------------------------------------------------------------
\* Bounds of the model (not program constants)
\* ------------------------------------------------------------------------
MaxIssues == 1      \* issues returned by search_issues
MaxSubtasks == 1    \* subtasks of one issue
MaxRecords == 2     \* work-log records the Issue Source returns in one run

\* ------------------------------------------------------------------------
\* Strings are sequences of one-character strings
\* ------------------------------------------------------------------------
Digits == {"0", "1", "2", "3", "4", "5", "6", "7", "8", "9"}

DigitVal(c) ==
    CASE c = "0" -> 0 [] c = "1" -> 1 [] c = "2" -> 2 [] c = "3" -> 3
      [] c = "4" -> 4 [] c = "5" -> 5 [] c = "6" -> 6 [] c = "7" -> 7
      [] c = "8" -> 8 [] c = "9" -> 9 [] OTHER -> 0

\* s[pos] or "" beyond the end of s
At(s, pos) == IF pos >= 1 /\ pos <= Len(s) THEN s[pos] ELSE ""

Slice(s, pos, n) == [i \in 1..n |-> At(s, pos + i - 1)]

IsPrefix(p, s) == Len(p) <= Len(s) /\ \A i \in 1..Len(p) : p[i] = s[i]

Pow10 == <<1, 10, 100, 1000, 10000, 100000>>

\* int() of a field of at most six characters: a run of digits, or a blank
\* and a digit (the " [1-9]" form of a day)
ToInt(cs) ==
    LET n == Len(cs)
        term(i) == IF i <= n THEN DigitVal(cs[i]) * Pow10[n - i + 1] ELSE 0
    IN term(1) + term(2) + term(3) + term(4) + term(5) + term(6)

SeqRange(s) == {s[i] : i \in 1..Len(s)}

\* ------------------------------------------------------------------------
\* re.match(r'[0-9]{4}-[0-9]{2}-[0-9]{2}', s): anchored at the start only
\* ------------------------------------------------------------------------
MatchDateShape(s) ==
    /\ \A i \in {1, 2, 3, 4, 6, 7, 9, 10} : At(s, i) \in Digits
    /\ At(s, 5) = "-"
    /\ At(s, 8) = "-"

\* ------------------------------------------------------------------------
\* datetime.strptime: the format is compiled to a regular expression that is
\* matched at the start of the string and must consume all of it; the field
\* values must then form a real datetime.
\* A format is a sequence of items: a directive letter ("Y", "m", "d", "H",
\* "M", "S", "f"), "ws" for white space in the format (\s+), or
\* <<"lit", c>> for a literal character.
\* In the three formats the program uses, every directive is followed by a
\* character the directive cannot match (or by the end of the string), so the
\* expression can match in one way only: each directive takes the whole run
\* of characters of its class, and that run must be one of its alternatives.
\* ------------------------------------------------------------------------
WhiteSpace == {" "}

TwoDigit(s, pos, lo, hi) ==
    /\ At(s, pos) \in Digits
    /\ At(s, pos + 1) \in Digits
    /\ LET v == 10 * DigitVal(At(s, pos)) + DigitVal(At(s, pos + 1))
       IN v >= lo /\ v <= hi

\* number of consecutive characters of class cls in s from pos
Run(s, pos, cls) ==
    CHOOSE n \in 0..Len(s) :
        /\ \A i \in 0..(n - 1) : At(s, pos + i) \in cls
        /\ At(s, pos + n) \notin cls

DigitRun(s, pos) == Run(s, pos, Digits)

SpaceRun(s, pos) == Run(s, pos, WhiteSpace)

Min(a, b) == IF a < b THEN a ELSE b

\* The lengths at which directive d matches s at pos: the alternatives of
\* its regular expression.
FieldLens(d, s, pos) ==
    LET one19 == At(s, pos) \in (Digits \ {"0"})
        oneD == At(s, pos) \in Digits
        opt(c, n) == IF c THEN {n} ELSE {}
    IN CASE d = "Y" -> opt(DigitRun(s, pos) >= 4, 4)
         [] d = "m" -> opt(TwoDigit(s, pos, 1, 12), 2) \cup opt(one19, 1)
         [] d = "d" -> opt(TwoDigit(s, pos, 1, 31), 2) \cup opt(one19, 1)
                       \cup opt(At(s, pos) = " " /\ At(s, pos + 1) \in (Digits \ {"0"}), 2)
         [] d = "H" -> opt(TwoDigit(s, pos, 0, 23), 2) \cup opt(oneD, 1)
         [] d = "M" -> opt(TwoDigit(s, pos, 0, 59), 2) \cup opt(oneD, 1)
         [] d = "S" -> opt(TwoDigit(s, pos, 0, 61), 2) \cup opt(oneD, 1)
         [] d = "f" -> 1..Min(DigitRun(s, pos), 6)
         [] d = "ws" -> 1..SpaceRun(s, pos)
         [] OTHER -> {}

\* the run of characters at pos that directive d could take part of
RunLen(d, s, pos) ==
    IF d = "ws" THEN SpaceRun(s, pos)
    ELSE IF d = "d" /\ At(s, pos) = " " THEN 1 + DigitRun(s, pos + 1)
    ELSE DigitRun(s, pos)

NoMatch == [ok |-> FALSE, end |-> 0, fields |-> <<>>]

\* one item of the format at pos
MatchItem(item, s, pos) ==
    IF Len(item) = 2
    THEN (IF At(s, pos) = item[2] THEN [ok |-> TRUE, end |-> pos, fields |-> <<>>] ELSE NoMatch)
    ELSE LET n == RunLen(item[1], s, pos)
         IN IF n \in FieldLens(item[1], s, pos)
            THEN [ok |-> TRUE, end |-> pos + n - 1, fields |-> <<<<item[1], Slice(s, pos, n)>>>>]
            ELSE NoMatch

RECURSIVE MatchRange(_, _, _, _, _)
\* items lo..hi of fmt against s from pos (the format is halved so that the
\* nesting stays shallow)
MatchRange(fmt, lo, hi, s, pos) ==
    IF lo > hi THEN [ok |-> TRUE, end |-> pos - 1, fields |-> <<>>]
    ELSE IF lo = hi THEN MatchItem(fmt[lo], s, pos)
    ELSE LET mid == (lo + hi) \div 2
             left == MatchRange(fmt, lo, mid, s, pos)
         IN IF ~left.ok THEN NoMatch
            ELSE LET right == MatchRange(fmt, mid + 1, hi, s, left.end + 1)
                 IN IF ~right.ok THEN NoMatch
                    ELSE [ok |-> TRUE, end |-> right.end, fields |-> left.fields \o right.fields]

MatchFrom(fmt, k, s, pos) == MatchRange(fmt, k, Len(fmt), s, pos)

\* the text matched by directive d (empty when the format has no d)
FieldOf(fields, d) ==
    IF \E i \in 1..Len(fields) : fields[i][1] = d
    THEN fields[CHOOSE i \in 1..Len(fields) : fields[i][1] = d][2]
    ELSE <<>>

\* %f: the digits are right-padded with zeros to six places
PadMicro(cs) == [i \in 1..6 |-> IF i <= Len(cs) THEN cs[i] ELSE "0"]

IsLeap(y) == (y % 4 = 0) /\ ((y % 100 # 0) \/ (y % 400 = 0))

DaysInMonth(y, m) ==
    IF m = 2 THEN (IF IsLeap(y) THEN 29 ELSE 28)
    ELSE IF m \in {4, 6, 9, 11} THEN 30 ELSE 31

ValueError == [ok |-> FALSE, dt |-> <<>>]

\* datetime.strptime(s, fmt): [ok |-> TRUE, dt |-> <<Y, m, d, H, M, S, us>>]
\* or ValueError
Strptime(s, fmt) ==
    LET Checked(y, mo, d, h, mi, sec, us) ==
            IF y < 1 \/ d > DaysInMonth(y, mo) \/ sec > 59 THEN ValueError
            ELSE [ok |-> TRUE, dt |-> <<y, mo, d, h, mi, sec, us>>]
        Micro(f) == IF Len(f) = 0 THEN 0 ELSE ToInt(PadMicro(f))
        Built(found) ==
            IF ~found.ok \/ found.end # Len(s) THEN ValueError
            ELSE Checked(ToInt(FieldOf(found.fields, "Y")),
                         ToInt(FieldOf(found.fields, "m")),
                         ToInt(FieldOf(found.fields, "d")),
                         ToInt(FieldOf(found.fields, "H")),
                         ToInt(FieldOf(found.fields, "M")),
                         ToInt(FieldOf(found.fields, "S")),
                         Micro(FieldOf(found.fields, "f")))
    IN Built(MatchFrom(fmt, 1, s, 1))

Lit(c) == <<"lit", c>>
Dir(d) == <<d>>

\* "%Y-%m-%d %H:%M:%S"
ArgFormat ==
    <<Dir("Y"), Lit("-"), Dir("m"), Lit("-"), Dir("d"), Dir("ws"),
      Dir("H"), Lit(":"), Dir("M"), Lit(":"), Dir("S")>>

\* "%Y-%m-%dT%H:%M:%S.%f-0600"
WorkFormat ==
    <<Dir("Y"), Lit("-"), Dir("m"), Lit("-"), Dir("d"), Lit("T"),
      Dir("H"), Lit(":"), Dir("M"), Lit(":"), Dir("S"), Lit("."), Dir("f"),
      Lit("-"), Lit("0"), Lit("6"), Lit("0"), Lit("0")>>

\* datetime comparison a < b: field by field, most significant first
DtLess(a, b) ==
    \E k \in 1..Len(a) : a[k] < b[k] /\ \A j \in 1..(k - 1) : a[j] = b[j]

\* ------------------------------------------------------------------------
\* binary64 arithmetic.  A non-negative float is held as its exact value in
\* units of 2^-FracBits: a sequence of NLimbs limbs of LimbBits bits each,
\* least significant limb first; the last limb is the integer part.  Every
\* float the program can produce within the bounds is a multiple of
\* 2^-FracBits below 2^LimbBits, so the representation is exact; each
\* operation computes the exact result and rounds it to 53 significant
\* bits, ties to even, as IEEE-754 does.
\* ------------------------------------------------------------------------
LimbBits == 16
NLimbs == 6
Mantissa == 53
Base == 65536                       \* 2^LimbBits
FracBits == LimbBits * (NLimbs - 1)

Pow2Table ==
    <<1, 2, 4, 8, 16, 32, 64, 128, 256, 512, 1024, 2048, 4096, 8192, 16384, 32768, 65536>>

\* 2^k for 0 <= k <= LimbBits
Pow2(k) == Pow2Table[k + 1]

Zero == [i \in 1..NLimbs |-> 0]

\* the integer n (0 <= n < Base) as a float
IntBits(n) == [i \in 1..NLimbs |-> IF i = NLimbs THEN n ELSE 0]

RECURSIVE AddFrom(_, _, _, _)
AddFrom(a, b, i, c) ==
    IF i > NLimbs THEN <<>>
    ELSE LET t == a[i] + b[i] + c
         IN <<t % Base>> \o AddFrom(a, b, i + 1, t \div Base)

\* exact sum
BAdd(a, b) == AddFrom(a, b, 1, 0)

RECURSIVE MulFrom(_, _, _, _)
MulFrom(a, k, i, c) ==
    IF i > NLimbs THEN <<>>
    ELSE LET t == a[i] * k + c
         IN <<t % Base>> \o MulFrom(a, k, i + 1, t \div Base)

\* exact product with 100
Mul100(a) == MulFrom(a, 100, 1, 0)

\* number of bits of n, 0 <= n < Base
BitLen(n) == CHOOSE k \in 0..LimbBits : n < Pow2(k) /\ (k = 0 \/ n >= Pow2(k - 1))

\* number of bits up to and including the leading one bit, 0 for zero
Msb(a) ==
    IF a = Zero THEN 0
    ELSE LET top == CHOOSE i \in 1..NLimbs : a[i] # 0 /\ \A j \in (i + 1)..NLimbs : a[j] = 0
         IN LimbBits * (top - 1) + BitLen(a[top])

\* bit number n (0 = least significant) of a
Bit(a, n) == (a[(n \div LimbBits) + 1] \div Pow2(n % LimbBits)) % 2

\* TRUE iff some bit of a below bit number n is set
AnyBelow(a, n) ==
    \/ \E i \in 1..(n \div LimbBits) : a[i] # 0
    \/ (n % LimbBits # 0 /\ a[(n \div LimbBits) + 1] % Pow2(n % LimbBits) # 0)

\* a with the bits below bit number n cleared
ClearBelow(a, n) ==
    [i \in 1..NLimbs |->
        IF i <= n \div LimbBits THEN 0
        ELSE IF i = (n \div LimbBits) + 1 THEN a[i] - (a[i] % Pow2(n % LimbBits))
        ELSE a[i]]

\* 2^n in units of the last place
OneAt(n) == [i \in 1..NLimbs |-> IF i = (n \div LimbBits) + 1 THEN Pow2(n % LimbBits) ELSE 0]

\* round the exact value a (+ a non-zero amount below the last place when
\* sticky) to Mantissa significant bits, round-half-to-even
RoundSig(a, sticky) ==
    LET p == Msb(a) - Mantissa     \* number of low bits that do not fit
    IN IF p <= 0 THEN a
       ELSE LET guard == Bit(a, p - 1) = 1
                rest == sticky \/ AnyBelow(a, p - 1)
                up == guard /\ (rest \/ Bit(a, p) = 1)
                kept == ClearBelow(a, p)
            IN IF up THEN BAdd(kept, OneAt(p)) ELSE kept

RECURSIVE DivFrom(_, _, _, _)
\* long division of limbs i..1 of a by the small integer d, r the remainder
\* carried in: <<quotient limbs 1..i, final remainder>>
DivFrom(a, d, i, r) ==
    IF i = 0 THEN <<<<>>, r>>
    ELSE LET t == r * Base + a[i]
             low == DivFrom(a, d, i - 1, t % d)
         IN <<Append(low[1], t \div d), low[2]>>

\* float addition a + b
FAdd(a, b) ==
    IF a = Zero THEN b
    ELSE IF b = Zero THEN a
    ELSE RoundSig(BAdd(a, b), FALSE)

\* float multiplication a * 100
FMul100(a) == IF a = Zero THEN Zero ELSE RoundSig(Mul100(a), FALSE)

\* float division a / d, d a small positive integer
FDiv(a, d) ==
    IF a = Zero THEN Zero
    ELSE LET q == DivFrom(a, d, NLimbs, 0)
         IN RoundSig(q[1], q[2] # 0)

\* floor(a)
Floor(a) == a[NLimbs]

\* round(a): nearest integer of the exact value, ties to the even integer
RoundHalfEven(a) ==
    LET ip == Floor(a)
        half == Bit(a, FracBits - 1) = 1
        below == AnyBelow(a, FracBits - 1)
    IN IF half /\ (below \/ ip % 2 = 1) THEN ip + 1 ELSE ip

\* number of hundredths nearest to the exact value of a, ties to even
Hundredths(a) == IF a = Zero THEN 0 ELSE RoundHalfEven(Mul100(a))

\* round(a, 2): the exact value is rounded to two decimals, ties to even,
\* and the float nearest to that decimal is returned
Round2(a) ==
    LET h == Hundredths(a)
    IN IF h = 0 THEN Zero ELSE FDiv(IntBits(h), 100)

\* ------------------------------------------------------------------------
\* Input universe: tokens of the command line
\* ------------------------------------------------------------------------
ProgName == <<"p">>
StartOpt == <<"-", "s", "t", "a", "r", "t", "d", "a", "t", "e">>
EndOpt == <<"-", "e", "n", "d", "d", "a", "t", "e">>
DetOpt == <<"-", "d", "e", "t", "a", "i", "l", "e", "d">>
HelpOpt == <<"-", "h">>
LongHelpOpt == <<"-", "-", "h", "e", "l", "p">>
AbbrStart == <<"-", "s", "t", "a", "r", "t">>          \* unambiguous abbreviation of -startdate
AbbrEnd == <<"-", "e", "n", "d">>
UnknownOpt == <<"-", "x">>

DateA == <<"2", "0", "2", "3", "-", "0", "1", "-", "0", "1">>             \* 2023-01-01
DateB == <<"2", "0", "2", "3", "-", "0", "1", "-", "3", "1">>             \* 2023-01-31
DateSlash == <<"2", "0", "2", "3", "/", "0", "1", "/", "0", "1">>         \* 2023/01/01: wrong separators
DateMonth13 == <<"2", "0", "2", "3", "-", "1", "3", "-", "0", "1">>       \* 2023-13-01: shape ok, no such month
DateFeb30 == <<"2", "0", "2", "3", "-", "0", "2", "-", "3", "0">>         \* 2023-02-30: shape ok, no such day
DateExtraDigit == <<"2", "0", "2", "3", "-", "0", "1", "-", "0", "1", "1">>    \* 2023-01-011: the shape followed by a digit
DateTrailSpace == <<"2", "0", "2", "3", "-", "0", "1", "-", "0", "1", " ">>    \* "2023-01-01 ": the shape followed by a blank

DateStrs == {DateA, DateB, DateSlash, DateMonth13, DateFeb30, DateExtraDigit, DateTrailSpace}

\* the strings that are exactly of the shape YYYY-MM-DD
ExactShape(s) == Len(s) = 10 /\ MatchDateShape(s)

ArgvSet ==
    {<<ProgName, StartOpt, s, EndOpt, DateB>> : s \in DateStrs \ {DateA, DateB}}
    \cup {<<ProgName, StartOpt, DateA, EndOpt, e>> :
             e \in {DateA, DateSlash, DateMonth13, DateExtraDigit}}
    \cup {<<ProgName, StartOpt, DateB, EndOpt, DateA>>,
          <<ProgName, StartOpt, DateA, EndOpt, DateB, DetOpt>>,
          <<ProgName, AbbrStart, DateSlash, AbbrEnd, DateB>>,
          <<ProgName, StartOpt, DateSlash, EndOpt, DateB, DetOpt>>,
          \* wrong number of tokens
          <<ProgName>>,
          <<ProgName, StartOpt, DateA>>,
          <<ProgName, StartOpt, DateA, EndOpt>>,
          <<ProgName, StartOpt, DateA, EndOpt, DateB, DetOpt, DetOpt>>,
          \* five or six tokens, a date option absent
          <<ProgName, EndOpt, DateA, EndOpt, DateB>>,
          <<ProgName, EndOpt, DateB, DetOpt, DetOpt>>,
          <<ProgName, StartOpt, DateA, DetOpt, DetOpt>>,
          <<ProgName, StartOpt, DateA, StartOpt, DateB, DetOpt>>,
          \* rejected by argparse
          <<ProgName, StartOpt, EndOpt, DateB, DetOpt>>,
          <<ProgName, StartOpt, DateA, UnknownOpt, DateB>>,
          <<ProgName, StartOpt, DateA, EndOpt, DateB, DateB>>,
          \* help requested
          <<ProgName, HelpOpt, HelpOpt, HelpOpt, HelpOpt>>,
          <<ProgName, StartOpt, DateSlash, EndOpt, DateB, HelpOpt>>,
          <<ProgName, DateA, LongHelpOpt, DateB, UnknownOpt>>}

\* ------------------------------------------------------------------------
\* argparse.ArgumentParser().parse_args() for the three options the program
\* adds and the -h/--help option argparse adds itself.  Forms with an
\* explicit argument ("-opt=value", "-hX") are outside the token universe.
\* ------------------------------------------------------------------------
Options ==
    {[name |-> HelpOpt, dest |-> "help"], [name |-> LongHelpOpt, dest |-> "help"],
     [name |-> StartOpt, dest |-> "startdate"], [name |-> EndOpt, dest |-> "enddate"],
     [name |-> DetOpt, dest |-> "detailed"]}

\* _parse_optional: "A" for a plain argument, otherwise the option meant
Classify(t) ==
    IF At(t, 1) # "-" THEN "A"
    ELSE IF \E o \in Options : o.name = t THEN (CHOOSE o \in Options : o.name = t).dest
    ELSE IF Len(t) = 1 THEN "A"
    ELSE LET m == {o.dest : o \in {o \in Options : IsPrefix(t, o.name)}}
         IN IF Cardinality(m) > 1 THEN "ambiguous"
            ELSE IF Cardinality(m) = 1 THEN CHOOSE d \in m : TRUE
            ELSE IF " " \in SeqRange(t) THEN "A"
            ELSE "unknown"

None == [none |-> TRUE, text |-> <<>>]
Some(t) == [none |-> FALSE, text |-> t]

EmptyNamespace == [startdate |-> None, enddate |-> None, detailed |-> FALSE]

RECURSIVE ArgparseFrom(_, _, _, _)
\* the parse loop from token i: [kind |-> "ok", ns |-> namespace],
\* [kind |-> "help"] (help printed, exit 0) or [kind |-> "error"] (exit 2)
ArgparseFrom(tokens, i, ns, extras) ==
    IF i > Len(tokens)
    THEN (IF extras THEN [kind |-> "error", ns |-> ns] ELSE [kind |-> "ok", ns |-> ns])
    ELSE LET c == Classify(tokens[i])
         IN CASE c \in {"A", "unknown"} -> ArgparseFrom(tokens, i + 1, ns, TRUE)
              [] c = "help" -> [kind |-> "help", ns |-> ns]
              [] c = "detailed" -> ArgparseFrom(tokens, i + 1, [ns EXCEPT !.detailed = TRUE], extras)
              [] c \in {"startdate", "enddate"} ->
                    IF i + 1 <= Len(tokens) /\ Classify(tokens[i + 1]) = "A"
                    THEN ArgparseFrom(tokens, i + 2, [ns EXCEPT ![c] = Some(tokens[i + 1])], extras)
                    ELSE [kind |-> "error", ns |-> ns]
              [] OTHER -> [kind |-> "error", ns |-> ns]

Argparse(tokens) ==
    IF \E i \in 1..Len(tokens) : Classify(tokens[i]) = "ambiguous"
    THEN [kind |-> "error", ns |-> EmptyNamespace]
    ELSE ArgparseFrom(tokens, 1, EmptyNamespace, FALSE)

\* ------------------------------------------------------------------------
\* parse_args()
\* ------------------------------------------------------------------------
ExitMinusOne == 255      \* sys.exit(-1) as the process status
ExitArgparse == 2        \* parser.error()
ExitUncaught == 1        \* uncaught exception
ExitOk == 0
Running == -1            \* exit_status while the process has not ended

StartSuffix == <<" ", "0", "0", ":", "0", "0", ":", "0", "1">>
EndSuffix == <<" ", "2", "3", ":", "5", "9", ":", "5", "9">>

NoArgs == [start_datetime |-> <<>>, end_datetime |-> <<>>, detailed |-> FALSE]

Result(k, code, o, e, a) == [kind |-> k, code |-> code, out |-> o, err |-> e, args |-> a]

\* kind "return": the dictionary returned; kind "exit": sys.exit(code) after
\* writing out/err; kind "raise": TypeError left parse_args (re.match on None)
ParseArgsOf(av) ==
    LET Dated(ns, st, en) ==
            IF ~st.ok
            THEN Result("exit", ExitMinusOne, <<<<"invalid_date", "startdate">>>>, <<>>, NoArgs)
            ELSE IF ~en.ok
            THEN Result("exit", ExitMinusOne, <<<<"invalid_date", "enddate">>>>, <<>>, NoArgs)
            ELSE Result("return", Running, <<>>, <<>>,
                        [start_datetime |-> st.dt, end_datetime |-> en.dt,
                         detailed |-> ns.detailed])
        Checked(ns) ==
            IF ns.startdate.none THEN Result("raise", Running, <<>>, <<>>, NoArgs)
            ELSE IF ~MatchDateShape(ns.startdate.text)
            THEN Result("exit", ExitMinusOne, <<<<"format_error", "startdate">>>>, <<>>, NoArgs)
            ELSE IF ns.enddate.none THEN Result("raise", Running, <<>>, <<>>, NoArgs)
            ELSE IF ~MatchDateShape(ns.enddate.text)
            THEN Result("exit", ExitMinusOne, <<<<"format_error", "enddate">>>>, <<>>, NoArgs)
            ELSE Dated(ns, Strptime(ns.startdate.text \o StartSuffix, ArgFormat),
                           Strptime(ns.enddate.text \o EndSuffix, ArgFormat))
        Parsed(p) ==
            CASE p.kind = "help" -> Result("exit", ExitOk, <<<<"help">>>>, <<>>, NoArgs)
              [] p.kind = "error" -> Result("exit", ExitArgparse, <<>>, <<<<"argparse_error">>>>, NoArgs)
              [] OTHER -> Checked(p.ns)
    IN IF Len(av) \notin {5, 6}
       THEN Result("exit", ExitMinusOne, <<>>, <<<<"usage">>>>, NoArgs)
       ELSE Parsed(Argparse(Tail(av)))

\* ------------------------------------------------------------------------
\* Input universe: what the Issue Source returns.  Every "started" stamp has
\* the form the interface promises: date, "T", time, a fraction of a second
\* and the suffix -0600.
\* ------------------------------------------------------------------------
Roster ==
    <<"Mark Coatsworth", "Jaime Frey", "John (TJ) Knoeller", "Todd L Miller",
      "Zach Miller", "Jason Patton", "Todd Tannenbaum", "Greg Thain", "Tim Theisen">>

Stranger == "Alan Turing"      \* an account that is not in the roster

AtStartA == <<"2", "0", "2", "3", "-", "0", "1", "-", "0", "1", "T", "0", "0", ":", "0", "0", ":", "0", "1", ".", "0", "0", "0", "-", "0", "6", "0", "0">>       \* exactly the start of a window that opens on DateA
JustInA == <<"2", "0", "2", "3", "-", "0", "1", "-", "0", "1", "T", "0", "0", ":", "0", "0", ":", "0", "1", ".", "0", "0", "1", "-", "0", "6", "0", "0">>        \* a millisecond later
MidJanuary == <<"2", "0", "2", "3", "-", "0", "1", "-", "1", "5", "T", "1", "0", ":", "0", "0", ":", "0", "0", ".", "0", "0", "0", "-", "0", "6", "0", "0">>
AtEndA == <<"2", "0", "2", "3", "-", "0", "1", "-", "0", "1", "T", "2", "3", ":", "5", "9", ":", "5", "9", ".", "0", "0", "0", "-", "0", "6", "0", "0">>         \* exactly the end of a window that closes on DateA

WorkItem(a, st, secs) == [author |-> a, started |-> st, timeSpentSeconds |-> secs]

Records ==
    {WorkItem("Greg Thain", MidJanuary, 360),
     WorkItem("Greg Thain", JustInA, 720),
     WorkItem("Greg Thain", AtStartA, 3600),
     WorkItem("Mark Coatsworth", AtEndA, 6480),
     WorkItem(Stranger, MidJanuary, 3600)}

\* the work-logs of at most n records
Worklogs(n) == UNION {[1..k -> Records] : k \in 0..n}

Issue(i, m) == [key |-> <<i>>, subtasks |-> [j \in 1..m |-> <<i, j>>]]

\* the results search_issues can return: up to MaxIssues issues, each with
\* up to MaxSubtasks subtasks
IssueLists ==
    UNION {{[i \in 1..n |-> Issue(i, m[i])] : m \in [1..n -> 0..MaxSubtasks]} : n \in 0..MaxIssues}

\* ------------------------------------------------------------------------
\* State
\* ------------------------------------------------------------------------
VARIABLES
    argv,                    \* sys.argv
    pc,                      \* position in main
    args,                    \* the dictionary parse_args returned
    developer_hours,         \* insertion-ordered dict: sequence of [name, hours]
    issues,                  \* result of search_issues
    ii,                      \* number of issues taken from issues
    issue_worklog,           \* work-log of the current issue
    wi,                      \* number of work items taken from issue_worklog
    display_issue_header,
    si,                      \* number of subtasks taken from the current issue
    subtask_worklog,         \* work-log of the current subtask
    wj,                      \* number of work items taken from subtask_worklog
    display_subtask_header,
    stdout,                  \* lines written to standard output
    stderr,                  \* lines written to standard error
    exit_status,             \* process exit status, Running until the end
    calls                    \* calls made to the Issue Source, with their results

vars == <<argv, pc, args, developer_hours, issues, ii, issue_worklog, wi,
          display_issue_header, si, subtask_worklog, wj, display_subtask_header,
          stdout, stderr, exit_status, calls>>

issueVars == <<issue_worklog, wi, display_issue_header>>
subtaskVars == <<si, subtask_worklog, wj, display_subtask_header>>

\* ------------------------------------------------------------------------
\* Dictionary operations on developer_hours
\* ------------------------------------------------------------------------
Keys(d) == {d[i].name : i \in 1..Len(d)}

HasKey(d, k) == \E i \in 1..Len(d) : d[i].name = k

Get(d, k) == d[CHOOSE i \in 1..Len(d) : d[i].name = k].hours

\* d[k] = v: replaces the value of an existing key, appends a new key
SetItem(d, k, v) ==
    IF HasKey(d, k)
    THEN [i \in 1..Len(d) |-> IF d[i].name = k THEN [d[i] EXCEPT !.hours = v] ELSE d[i]]
    ELSE Append(d, [name |-> k, hours |-> v])

\* ------------------------------------------------------------------------
\* Work item handling (the body of both work-log loops)
\* ------------------------------------------------------------------------
\* Fault variant of InWindow: the bounds taken as inclusive
InWindowInclusive(work_datetime, a) ==
    ~DtLess(work_datetime, a.start_datetime) /\ ~DtLess(a.end_datetime, work_datetime)

\* work_datetime > start_datetime and work_datetime < end_datetime
InWindow(work_datetime, a) ==
    DtLess(a.start_datetime, work_datetime) /\ DtLess(work_datetime, a.end_datetime)

\* round(work_item.timeSpentSeconds/3600, 2)
HoursOf(item) == Round2(FDiv(IntBits(item.timeSpentSeconds), 3600))

\* str.rfind counted from 1: the last position of c in s, 0 when absent
RFind(s, c) ==
    IF \A i \in 1..Len(s) : s[i] # c THEN 0
    ELSE CHOOSE i \in 1..Len(s) : s[i] = c /\ \A j \in (i + 1)..Len(s) : s[j] # c

\* "%Y-%m-%dT%H:%M:%S.%f"
DetailFormat == SubSeq(WorkFormat, 1, 13)

\* started[0:started.rfind("-")] parsed and shown to the second
StartedShown(item) ==
    LET cut == SubSeq(item.started, 1, RFind(item.started, "-") - 1)
    IN SubSeq(Strptime(cut, DetailFormat).dt, 1, 6)

DetailLine(indent, item) == <<"detail", indent, item.author, HoursOf(item), StartedShown(item)>>

\* number of work-log records the Issue Source has returned so far
Handed(cl) ==
    Cardinality({<<i, j>> \in (1..Len(cl)) \X (1..MaxRecords) :
                    cl[i][1] = "worklogs" /\ j <= Len(cl[i][3])})

\* ------------------------------------------------------------------------
\* Actions
\* ------------------------------------------------------------------------
Init ==
    /\ argv \in ArgvSet
    /\ pc = "start"
    /\ args = NoArgs
    /\ developer_hours = <<>>
    /\ issues = <<>>
    /\ ii = 0
    /\ issue_worklog = <<>>
    /\ wi = 0
    /\ display_issue_header = TRUE
    /\ si = 0
    /\ subtask_worklog = <<>>
    /\ wj = 0
    /\ display_subtask_header = TRUE
    /\ stdout = <<>>
    /\ stderr = <<>>
    /\ exit_status = Running
    /\ calls = <<>>

\* the process ends with status code
Exit(code) == pc' = "exited" /\ exit_status' = code

\* an exception nobody catches: traceback on standard error, status 1
Uncaught(exc) ==
    /\ stderr' = Append(stderr, <<"traceback", exc>>)
    /\ Exit(ExitUncaught)

\* Fault variant of ParseArgs: after the TypeError is caught and reported,
\* main goes on with args bound to an empty window
ParseArgsGoesOn ==
    /\ pc = "start"
    /\ \E r \in {ParseArgsOf(argv)} :
          CASE r.kind = "exit" ->
                 /\ stdout' = stdout \o r.out
                 /\ stderr' = stderr \o r.err
                 /\ Exit(r.code)
                 /\ args' = args
            [] r.kind = "raise" ->
                 /\ stdout' = stdout
                 /\ stderr' = stderr \o <<<<"failed_to_parse">>>>
                 /\ args' = [start_datetime |-> <<2023, 1, 1, 0, 0, 1, 0>>,
                             end_datetime |-> <<2023, 1, 1, 0, 0, 1, 0>>,
                             detailed |-> FALSE]
                 /\ pc' = "connect"
                 /\ exit_status' = exit_status
            [] OTHER ->
                 /\ args' = r.args
                 /\ pc' = "connect"
                 /\ UNCHANGED <<stdout, stderr, exit_status>>
    /\ UNCHANGED <<argv, developer_hours, issues, ii, issueVars, subtaskVars, calls>>

\* main, lines 68-75: parse_args() inside try/except Exception, then the
\* reads of args.  sys.exit raises SystemExit, which is not an Exception and
\* ends the process; a TypeError is caught, reported on standard error, and
\* main goes on to read the unassigned local args.
ParseArgs ==
    /\ pc = "start"
    /\ \E r \in {ParseArgsOf(argv)} :
          CASE r.kind = "exit" ->
                 /\ stdout' = stdout \o r.out
                 /\ stderr' = stderr \o r.err
                 /\ Exit(r.code)
                 /\ args' = args
            [] r.kind = "raise" ->
                 /\ stdout' = stdout
                 /\ stderr' = stderr \o <<<<"failed_to_parse">>, <<"traceback", "UnboundLocalError">>>>
                 /\ Exit(ExitUncaught)
                 /\ args' = args
            [] OTHER ->
                 /\ args' = r.args
                 /\ pc' = "connect"
                 /\ UNCHANGED <<stdout, stderr, exit_status>>
    /\ UNCHANGED <<argv, developer_hours, issues, ii, issueVars, subtaskVars, calls>>

\* main, lines 78-97: JIRA(options), then the table of developers
Connect ==
    /\ pc = "connect"
    /\ calls' = Append(calls, <<"JIRA">>)
    /\ developer_hours' = [i \in 1..Len(Roster) |-> [name |-> Roster[i], hours |-> Zero]]
    /\ pc' = "search"
    /\ UNCHANGED <<argv, args, issues, ii, issueVars, subtaskVars, stdout, stderr, exit_status>>

\* main, line 100
SearchIssues ==
    /\ pc = "search"
    /\ \E found \in IssueLists :
          /\ issues' = found
          /\ calls' = Append(calls, <<"search_issues", found>>)
    /\ ii' = 0
    /\ pc' = "issues"
    /\ UNCHANGED <<argv, args, developer_hours, issueVars, subtaskVars, stdout, stderr, exit_status>>

\* main, lines 101-103: the next issue and its work-log, or the end of the loop
NextIssue ==
    /\ pc = "issues"
    /\ IF ii < Len(issues)
       THEN /\ ii' = ii + 1
            /\ \E log \in Worklogs(Min(MaxRecords - Handed(calls), MaxRecords)) :
                  /\ issue_worklog' = log
                  /\ calls' = Append(calls, <<"worklogs", issues[ii + 1].key, log>>)
            /\ wi' = 0
            /\ display_issue_header' = TRUE
            /\ pc' = "issue_log"
       ELSE /\ pc' = "report"
            /\ UNCHANGED <<ii, issueVars, calls>>
    /\ UNCHANGED <<argv, args, developer_hours, issues, subtaskVars, stdout, stderr, exit_status>>

\* Fault variant of WorkItemStep: a record of an author outside the table
\* is skipped silently
WorkItemStepSkips(work_item, a, d, show_header, header, indent) ==
    LET Logged(inside) ==
            [inside |-> inside,
             out |-> IF inside /\ a.detailed
                     THEN (IF show_header THEN <<header>> ELSE <<>>)
                          \o <<DetailLine(indent, work_item)>>
                     ELSE <<>>,
             exc |-> "",
             hours |-> IF inside /\ HasKey(d, work_item.author)
                       THEN SetItem(d, work_item.author,
                                    FAdd(Get(d, work_item.author), HoursOf(work_item)))
                       ELSE d]
    IN Logged(InWindow(Strptime(work_item.started, WorkFormat).dt, a))

\* Fault variant of WorkItemStep: an author outside the table is given an
\* entry (as dict.setdefault or a defaultdict would)
WorkItemStepAdopts(work_item, a, d, show_header, header, indent) ==
    LET Logged(inside) ==
            [inside |-> inside,
             out |-> IF inside /\ a.detailed
                     THEN (IF show_header THEN <<header>> ELSE <<>>)
                          \o <<DetailLine(indent, work_item)>>
                     ELSE <<>>,
             exc |-> "",
             hours |-> IF ~inside THEN d
                       ELSE IF HasKey(d, work_item.author)
                       THEN SetItem(d, work_item.author,
                                    FAdd(Get(d, work_item.author), HoursOf(work_item)))
                       ELSE SetItem(d, work_item.author, HoursOf(work_item))]
    IN Logged(InWindow(Strptime(work_item.started, WorkFormat).dt, a))

\* lines 105-115 and 122-132, the body of both work-log loops for one work
\* item: the lines printed, the exception raised ("" when none) and the
\* table afterwards.  d is the table, show_header the display flag, header
\* the header line of the issue or subtask, indent the depth of the detail.
WorkItemStep(work_item, a, d, show_header, header, indent) ==
    LET Logged(inside) ==
            [inside |-> inside,
             out |-> IF inside /\ a.detailed
                     THEN (IF show_header THEN <<header>> ELSE <<>>)
                          \o <<DetailLine(indent, work_item)>>
                     ELSE <<>>,
             exc |-> IF inside /\ ~HasKey(d, work_item.author) THEN "KeyError" ELSE "",
             hours |-> IF inside /\ HasKey(d, work_item.author)
                       THEN SetItem(d, work_item.author,
                                    FAdd(Get(d, work_item.author), HoursOf(work_item)))
                       ELSE d]
        Stamped(parsed) ==
            IF ~parsed.ok
            THEN [inside |-> FALSE, out |-> <<>>, exc |-> "ValueError", hours |-> d]
            ELSE Logged(InWindow(parsed.dt, a))
    IN Stamped(Strptime(work_item.started, WorkFormat))

\* Fault variant of IssueWorkItem: display_issue_header is never cleared
IssueWorkItemRepeatsHeader ==
    /\ pc = "issue_log"
    /\ wi < Len(issue_worklog)
    /\ \E r \in {WorkItemStep(issue_worklog[wi + 1], args, developer_hours,
                              display_issue_header, <<"issue_header", issues[ii].key>>, 1)} :
          /\ wi' = wi + 1
          /\ stdout' = stdout \o r.out
          /\ display_issue_header' = display_issue_header
          /\ developer_hours' = r.hours
          /\ IF r.exc # "" THEN Uncaught(r.exc) ELSE UNCHANGED <<pc, stderr, exit_status>>
    /\ UNCHANGED <<argv, args, issues, ii, issue_worklog, subtaskVars, calls>>

\* main, lines 104-115: one work item of the issue's work-log
IssueWorkItem ==
    /\ pc = "issue_log"
    /\ wi < Len(issue_worklog)
    /\ \E r \in {WorkItemStep(issue_worklog[wi + 1], args, developer_hours,
                              display_issue_header, <<"issue_header", issues[ii].key>>, 1)} :
          /\ wi' = wi + 1
          /\ stdout' = stdout \o r.out
          /\ display_issue_header' = (display_issue_header /\ ~(r.inside /\ args.detailed))
          /\ developer_hours' = r.hours
          /\ IF r.exc # "" THEN Uncaught(r.exc) ELSE UNCHANGED <<pc, stderr, exit_status>>
    /\ UNCHANGED <<argv, args, issues, ii, issue_worklog, subtaskVars, calls>>

\* main, lines 117-120: after the issue's work-log, and after each subtask's
\* work-log, the next subtask and its work-log, or back to the issue loop
NextSubtask ==
    /\ \/ pc = "issue_log" /\ wi = Len(issue_worklog)
       \/ pc = "subtask_log" /\ wj = Len(subtask_worklog)
    /\ \E done \in {IF pc = "issue_log" THEN 0 ELSE si} :
          IF done < Len(issues[ii].subtasks)
          THEN /\ si' = done + 1
               /\ \E log \in Worklogs(Min(MaxRecords - Handed(calls), MaxRecords)) :
                     /\ subtask_worklog' = log
                     /\ calls' = Append(calls, <<"worklogs", issues[ii].subtasks[done + 1], log>>)
               /\ wj' = 0
               /\ display_subtask_header' = TRUE
               /\ pc' = "subtask_log"
          ELSE /\ pc' = "issues"
               /\ UNCHANGED <<subtaskVars, calls>>
    /\ UNCHANGED <<argv, args, developer_hours, issues, ii, issueVars, stdout, stderr, exit_status>>

\* main, lines 121-132: one work item of the subtask's work-log
SubtaskWorkItem ==
    /\ pc = "subtask_log"
    /\ wj < Len(subtask_worklog)
    /\ \E r \in {WorkItemStep(subtask_worklog[wj + 1], args, developer_hours,
                              display_subtask_header,
                              <<"subtask_header", issues[ii].subtasks[si]>>, 2)} :
          /\ wj' = wj + 1
          /\ stdout' = stdout \o r.out
          /\ display_subtask_header' = (display_subtask_header /\ ~(r.inside /\ args.detailed))
          /\ developer_hours' = r.hours
          /\ IF r.exc # "" THEN Uncaught(r.exc) ELSE UNCHANGED <<pc, stderr, exit_status>>
    /\ UNCHANGED <<argv, args, issues, ii, issueVars, si, subtask_worklog, calls>>

\* ------------------------------------------------------------------------
\* The report, lines 135-143
\* ------------------------------------------------------------------------
RECURSIVE SumHours(_, _)
\* total_hours_logged after the first n developers: 0 + d[1] + ... + d[n],
\* added left to right
SumHours(d, n) == IF n = 0 THEN Zero ELSE FAdd(SumHours(d, n - 1), d[n].hours)

\* len(developer_hours)*40
Capacity(d) == Len(d) * 40

\* round(total_hours_logged*100/(len(developer_hours)*40))
Percent(total, d) == RoundHalfEven(FDiv(FMul100(total), Capacity(d)))

ReportLines(d, a) ==
    <<<<"between", SubSeq(a.start_datetime, 1, 3), SubSeq(a.end_datetime, 1, 3)>>>>
    \o [i \in 1..Len(d) |-> <<"logged", d[i].name, Round2(d[i].hours)>>]
    \o <<<<"total", SumHours(d, Len(d))>>,
         <<"capacity", Capacity(d)>>,
         <<"percent", Percent(SumHours(d, Len(d)), d)>>>>

Report ==
    /\ pc = "report"
    /\ stdout' = stdout \o ReportLines(developer_hours, args)
    /\ Exit(ExitOk)
    /\ UNCHANGED <<argv, args, developer_hours, issues, ii, issueVars, subtaskVars, stderr, calls>>

Next ==
    \/ ParseArgs
    \/ Connect
    \/ SearchIssues
    \/ NextIssue
    \/ IssueWorkItem
    \/ NextSubtask
    \/ SubtaskWorkItem
    \/ Report

Spec == Init /\ [][Next]_vars

\* ------------------------------------------------------------------------
\* Observations on a run, used to state the properties
\* ------------------------------------------------------------------------
RosterSet == SeqRange(Roster)

\* place of a datetime on the time line, to the second (years from 2000 on)
Ordinal(dt) ==
    ((((dt[1] - 2000) * 12 + dt[2]) * 31 + dt[3]) * 24 + dt[4]) * 3600 + dt[5] * 60 + dt[6]

\* a is earlier than b
Earlier(a, b) ==
    Ordinal(a) < Ordinal(b) \/ (Ordinal(a) = Ordinal(b) /\ a[7] < b[7])

\* the datetime a stamp of the form YYYY-MM-DDTHH:MM:SS.mmm-0600 denotes,
\* read off its fixed columns
StampOf(st) ==
    <<ToInt(Slice(st, 1, 4)), ToInt(Slice(st, 6, 2)), ToInt(Slice(st, 9, 2)),
      ToInt(Slice(st, 12, 2)), ToInt(Slice(st, 15, 2)), ToInt(Slice(st, 18, 2)),
      1000 * ToInt(Slice(st, 21, 3))>>

\* window.start < record.started < window.end
StrictlyInside(r, a) ==
    LET Between(t) == Earlier(a.start_datetime, t) /\ Earlier(t, a.end_datetime)
    IN Between(StampOf(r.started))

\* this step of main handles one work-log record
StepsRecord ==
    \/ pc = "issue_log" /\ wi' = wi + 1
    \/ pc = "subtask_log" /\ wj' = wj + 1

\* the record it handles
RecordOfStep ==
    IF pc = "issue_log" THEN issue_worklog[wi + 1] ELSE subtask_worklog[wj + 1]

\* the step adds the hours of r to the total of r's author and changes
\* nothing else in the table
Counted(r) ==
    /\ HasKey(developer_hours, r.author)
    /\ developer_hours' = SetItem(developer_hours, r.author,
                                  FAdd(Get(developer_hours, r.author), HoursOf(r)))

\* the kinds of the lines written so far
KindsOf(lines) == {lines[i][1] : i \in 1..Len(lines)}

ReportKinds == {"between", "logged", "total", "capacity", "percent"}

\* the run went through the whole report
Reported == pc = "exited" /\ exit_status = ExitOk /\ "percent" \in KindsOf(stdout)

\* the second field of the only line of the given kind
Printed(kind) == stdout[CHOOSE i \in 1..Len(stdout) : stdout[i][1] = kind][2]

\* the hours printed for a developer
PrintedHours(name) ==
    stdout[CHOOSE i \in 1..Len(stdout) : stdout[i][1] = "logged" /\ stdout[i][2] = name][3]

RECURSIVE HandedRecords(_, _)
\* the records of the first n calls, in the order main handles them
HandedRecords(cl, n) ==
    IF n = 0 THEN <<>>
    ELSE HandedRecords(cl, n - 1) \o (IF cl[n][1] = "worklogs" THEN cl[n][3] ELSE <<>>)

RECURSIVE RoundedSum(_, _, _, _)
\* sum of the individually rounded hours of the author's in-window records
\* among the first n of recs
RoundedSum(recs, n, author, a) ==
    IF n = 0 THEN Zero
    ELSE IF recs[n].author = author /\ StrictlyInside(recs[n], a)
    THEN FAdd(RoundedSum(recs, n - 1, author, a), HoursOf(recs[n]))
    ELSE RoundedSum(recs, n - 1, author, a)

RECURSIVE SumPrinted(_)
\* sum of the hours printed for the first n developers
SumPrinted(n) ==
    IF n = 0 THEN Zero ELSE FAdd(SumPrinted(n - 1), PrintedHours(Roster[n]))

\* x rounded to the nearest integer, halves upwards, for x = total*100/capacity
StandardRound(total, capacity) ==
    (2 * Floor(Mul100(total)) + capacity) \div (2 * capacity)

\* the header and detail lines among lines: a header as it is, a detail
\* line as its author
Shown(lines) ==
    LET Seen(l) == IF l[1] = "detail" THEN <<"detail", l[3]>> ELSE l
        Kept == SelectSeq(lines, LAMBDA l : l[1] \in {"issue_header", "subtask_header", "detail"})
    IN [i \in 1..Len(Kept) |-> Seen(Kept[i])]

\* number of records of the k-th call's work-log that main has handled
Progress(cl, k) ==
    IF k < Len(cl) THEN Len(cl[k][3])
    ELSE IF Len(cl[k][2]) = 1 THEN wi ELSE wj

\* what detailed mode shows for one issue or subtask, n of its records handled
ShownFor(key, log, n, a) ==
    LET Lines(ins) ==
            IF ins = <<>> THEN <<>>
            ELSE <<IF Len(key) = 1 THEN <<"issue_header", key>> ELSE <<"subtask_header", key>>>>
                 \o [i \in 1..Len(ins) |-> <<"detail", ins[i].author>>]
    IN Lines(SelectSeq(SubSeq(log, 1, n), LAMBDA r : StrictlyInside(r, a)))

RECURSIVE ExpectedShown(_, _, _)
\* what detailed mode shows for the first k calls
ExpectedShown(cl, k, a) ==
    IF k = 0 THEN <<>>
    ELSE ExpectedShown(cl, k - 1, a)
         \o (IF cl[k][1] = "worklogs" THEN ShownFor(cl[k][2], cl[k][3], Progress(cl, k), a)
             ELSE <<>>)

\* a validation error has been reported
ValidationKinds == {"usage", "argparse_error", "failed_to_parse", "format_error", "invalid_date"}

ValidationFailed == (KindsOf(stdout) \cup KindsOf(stderr)) \cap ValidationKinds # {}

\* the date strings given on the command line, when both are given
GivenDates == Argparse(Tail(argv)).ns

BothDatesGiven ==
    /\ Len(argv) \in {5, 6}
    /\ Argparse(Tail(argv)).kind = "ok"
    /\ ~GivenDates.startdate.none
    /\ ~GivenDates.enddate.none

\* ------------------------------------------------------------------------
\* Properties
\* ------------------------------------------------------------------------

\* C1 as stated: every record main handles, of an issue or of a subtask, is
\* counted towards its author's hours if and only if its stamp lies strictly
\* inside the window.
C1_CountedIffStrictlyInside ==
    [][StepsRecord => (Counted(RecordOfStep) <=> StrictlyInside(RecordOfStep, args))]_vars

\* C1, amended: every record of a roster author that main handles is counted
\* towards its author's hours if and only if its stamp lies strictly inside
\* the window; a record on either boundary leaves the table unchanged.
C1_RosterRecordCountedIffStrictlyInside ==
    [][(StepsRecord /\ RecordOfStep.author \in RosterSet)
          => IF StrictlyInside(RecordOfStep, args)
             THEN Counted(RecordOfStep)
             ELSE developer_hours' = developer_hours]_vars

\* a record exactly at window.start was handled and left out, the record a
\* millisecond later was counted
C1_Witness ==
    /\ pc = "issue_log"
    /\ wi = 2
    /\ issue_worklog = <<WorkItem("Greg Thain", AtStartA, 3600), WorkItem("Greg Thain", JustInA, 720)>>
    /\ args.start_datetime = <<2023, 1, 1, 0, 0, 1, 0>>
    /\ Get(developer_hours, "Greg Thain") = HoursOf(WorkItem("Greg Thain", JustInA, 720))

C3_UnknownAuthorIsFatal ==
    /\ [][(StepsRecord /\ RecordOfStep.author \notin RosterSet
                       /\ StrictlyInside(RecordOfStep, args))
             => /\ pc' = "exited"
                /\ exit_status' = ExitUncaught
                /\ stderr' = Append(stderr, <<"traceback", "KeyError">>)
                /\ developer_hours' = developer_hours]_vars
    /\ [][pc = "exited" => UNCHANGED vars]_vars
    /\ []("KeyError" \in {stderr[i][2] : i \in {j \in 1..Len(stderr) : stderr[j][1] = "traceback"}}
             => pc = "exited" /\ KindsOf(stdout) \cap ReportKinds = {})

\* a subtask's record of an unknown author ended the run after a record of
\* the issue had been counted
C3_Witness ==
    /\ pc = "exited"
    /\ exit_status = ExitUncaught
    /\ stderr = <<<<"traceback", "KeyError">>>>
    /\ wi = 1 /\ si = 1 /\ wj = 1
    /\ subtask_worklog[1].author = Stranger
    /\ Get(developer_hours, "Greg Thain") # Zero

\* C4 as stated: every window parse_args returns has start < end.
C4_WindowStartBeforeEnd ==
    pc \notin {"start", "exited"} => Earlier(args.start_datetime, args.end_datetime)

\* C5: from the initialization of developer_hours on, in every state (the
\* state of an unknown-author error included), the keys of the table are
\* exactly the roster, each once.
C5_KeysAreTheRoster ==
    calls # <<>> => /\ Keys(developer_hours) = RosterSet
                    /\ Len(developer_hours) = Len(Roster)

\* the run ended on an unknown author after a total had changed
C5_Witness ==
    /\ pc = "exited"
    /\ exit_status = ExitUncaught
    /\ calls # <<>>
    /\ \E i \in 1..Len(developer_hours) : developer_hours[i].hours # Zero

\* C6 as stated: after a run whose in-window records all have roster
\* authors, each author's total is the sum of the individually rounded
\* hours of that author's in-window records, and the grand total reported
\* is the sum of the per-author totals as printed.
C6_TotalsAreSumsOfRounded ==
    Reported =>
        /\ \A i \in 1..Len(developer_hours) :
              developer_hours[i].hours =
                  RoundedSum(HandedRecords(calls, Len(calls)),
                             Len(HandedRecords(calls, Len(calls))),
                             developer_hours[i].name, args)
        /\ Printed("total") = SumPrinted(Len(Roster))

\* C7: what has been written of header and detail lines is, in detailed
\* mode, for each issue and each subtask in turn, nothing when none of its
\* handled records is in the window, and otherwise its header once followed
\* by one detail line per in-window record; without detailed mode, nothing.
C7_HeaderOnceBeforeDetails ==
    Shown(stdout) = IF args.detailed THEN ExpectedShown(calls, Len(calls), args) ELSE <<>>

\* detailed mode, an issue with two in-window records: one header, two details
C7_Witness ==
    /\ args.detailed
    /\ Reported
    /\ Len(issue_worklog) = 2
    /\ Len(Shown(stdout)) = 3
    /\ Shown(stdout)[1][1] = "issue_header"
    /\ Shown(stdout)[2][1] = "detail"
    /\ Shown(stdout)[3][1] = "detail"

\* C8 as stated: the percentage printed is total*100/(40n) rounded to the
\* nearest integer, halves upwards.
C8_PercentIsStandardRounding ==
    Reported => Printed("percent") = StandardRound(Printed("total"), Printed("capacity"))

\* C9 as stated: the only line the program writes to standard error is the
\* usage message, and only when the argument count is not 5 or 6.  (The
\* interpreter's traceback and argparse's own message are left aside.)
C9_OnlyUsageOnStderr ==
    \A i \in 1..Len(stderr) :
        stderr[i][1] \notin {"traceback", "argparse_error"}
            => stderr[i] = <<"usage">> /\ Len(argv) \notin {5, 6}

\* C10 as stated: when a date given is not exactly of the shape YYYY-MM-DD,
\* parse_args reports the format error and neither returns a window nor
\* reports an invalid date.
C10_InexactShapeIsFormatError ==
    (/\ pc # "start"
     /\ BothDatesGiven
     /\ ~(ExactShape(GivenDates.startdate.text) /\ ExactShape(GivenDates.enddate.text)))
        => /\ "format_error" \in KindsOf(stdout)
           /\ "invalid_date" \notin KindsOf(stdout)
           /\ args = NoArgs

====
